---- MODULE Spec2Model ----
(***************************************************************************)
(* Model of the SpaceX agent orchestration core (src/src/agent.py):        *)
(* the conversation log, SpaceXAgent._prune_memory and the SpaceXAgent.chat *)
(* loop with its tool dispatch.                                            *)
(***************************************************************************)
EXTENDS Integers, Sequences, FiniteSets, TLC

VARIABLES
    messages,      \* self.messages: the conversation log
    max_history,   \* self.max_history
    pc,            \* position of the caller / of chat()
    pending,       \* message.tool_calls of the response being handled (local of chat)
    k,             \* 1-based position of the for loop over message.tool_calls
    in_flight,     \* ids of tool calls whose executor has been awaited and has not completed
    invoked,       \* ids of the executor invocations of the current chat call, in order
    client_calls,  \* ids of tool calls for which a SpaceXClient method was called (current chat call)
    model_calls,   \* number of openai.chat.completions.create calls issued by the current chat call
    call_len,      \* length of the log handed to the model call issued last
    ret,           \* how the latest chat call ended: "none" (not ended), "done", "llm_error",
                   \* "raised"; "interrupted" when main was interrupted between calls
    turn,          \* number of chat calls made so far
    next_id,       \* number of tool-call ids the model has issued so far
    log0,          \* the log as constructed / as handed to a direct _prune_memory call
    request,       \* the SpaceXClient call the executor in flight has made: method and endpoint
    attempts,      \* outcomes of the HTTP attempts of that _get / _post call, in order
    wiki,          \* requests get_wikipedia_summary has issued, each with its outcome, in order
    result,        \* what the SpaceXClient call returned or raised, [kind |-> "none"] before
    main_pc,       \* position of main(): "none" (agent used without main), "loop", "finally"
                   \* (in the finally block, before or inside agent.close()), "finished"
    closes,        \* number of agent.close() calls made (begun, returned or not)
    data,          \* the value handed to a direct _clean_data call
    cleaned        \* <<_clean_data(data), _clean_data(_clean_data(data))>> once computed

\* the variables the chat loop itself never touches
aux == <<request, attempts, wiki, result, main_pc, closes, data, cleaned>>

vars == <<messages, max_history, pc, pending, k, in_flight, invoked, client_calls,
          model_calls, call_len, ret, turn, next_id, log0, aux>>

----------------------------------------------------------------------------
(* Bounds of the model *)

\* chat calls made on one agent
MaxTurns == 2
\* tool-call requests the model issues in one run (over all responses)
MaxToolCalls == 2
\* largest max_history of an agent driven through chat
MaxHistory == 3
\* longest log handed to a direct _prune_memory call
MaxLog == 5
\* tool-call requests the model issues in a run of main.py or of the integration test
MaxCallerToolCalls == 1

----------------------------------------------------------------------------
(* Messages *)

NoId == 0

SystemMessage ==
    [role |-> "system", content |-> "SYSTEM_PROMPT", tool_calls |-> <<>>, tool_call_id |-> NoId]

UserMessage(user_input) ==
    [role |-> "user", content |-> user_input, tool_calls |-> <<>>, tool_call_id |-> NoId]

\* response.choices[0].message: an assistant message with its tool_calls
AssistantMessage(tool_calls) ==
    [role |-> "assistant", content |-> "text", tool_calls |-> tool_calls, tool_call_id |-> NoId]

ToolMessage(tool_id, content) ==
    [role |-> "tool", content |-> content, tool_calls |-> <<>>, tool_call_id |-> tool_id]

\* json.dumps(result)
ResultContent == "result"

\* json.dumps({"error": f"Tool Execution Error: {str(e)}"})
ErrorContent(detail) == "{\"error\": \"Tool Execution Error: " \o detail \o "\"}"

\* json.dumps({"error": f"Tool {fn_name} not found"})
NotFoundContent(fn_name) == "{\"error\": \"Tool " \o fn_name \o " not found\"}"

UserInputs == {"What is the Falcon 9?"}

----------------------------------------------------------------------------
(* Python list slicing s[start:] *)

SliceFrom(s, start) ==
    LET n  == Len(s)
        st == IF start < 0
                THEN (IF n + start < 0 THEN 0 ELSE n + start)
                ELSE (IF start > n THEN n ELSE start)
    IN  SubSeq(s, st + 1, n)

----------------------------------------------------------------------------
(* SpaceXAgent._prune_memory *)

\* The window taken from its first message on, user message or not.
safe_start_index_zero(recent_messages) == 0

\* the for loop of lines 205-219: 0-based index of the first 'user' message, else 0
safe_start_index(recent_messages) ==
    LET users == {i \in 1..Len(recent_messages) : recent_messages[i].role = "user"}
    IN  IF users = {} THEN 0
        ELSE (CHOOSE i \in users : \A j \in users : i <= j) - 1

\* The log left as it is, whatever its length.
_prune_memory_keeps_all(msgs, mh) == msgs

\* A slice of the most recent messages with no system prompt put in front.
_prune_memory_no_head(msgs, mh) ==
    IF Len(msgs) <= mh THEN msgs
    ELSE LET recent_messages == SliceFrom(msgs, -(mh - 1))
         IN  SliceFrom(recent_messages, safe_start_index(recent_messages))

_prune_memory(msgs, mh) ==
    IF Len(msgs) <= mh THEN msgs
    ELSE LET new_messages    == <<msgs[1]>>
             target_len      == mh - 1
             recent_messages == SliceFrom(msgs, -target_len)
             final_slice     == SliceFrom(recent_messages, safe_start_index(recent_messages))
         IN  new_messages \o final_slice

----------------------------------------------------------------------------
(* Tool registry and argument validation *)

\* self.tools_map (its keys)
tools_map ==
    {"get_next_launch", "get_latest_launch", "get_rocket_details", "get_company_info",
     "get_launchpad_details", "get_wikipedia_summary", "query_launches"}

\* self.input_models with the pydantic models of tools.py: the required str fields of each
input_models ==
    [fn_name \in tools_map |->
        CASE fn_name = "get_rocket_details"    -> {"rocket_id"}
          [] fn_name = "get_launchpad_details" -> {"launchpad_id"}
          [] fn_name = "get_wikipedia_summary" -> {"query"}
          [] OTHER                             -> {}]

\* json.loads on the raw argument payloads the model is let to send
json_loads(args_json) ==
    CASE args_json = "{"                       -> [kind |-> "error",  fields |-> {}]
      [] args_json = "[]"                      -> [kind |-> "array",  fields |-> {}]
      [] args_json = "{}"                      -> [kind |-> "object", fields |-> {}]
      [] args_json = "{\"rocket_id\": \"r1\"}" -> [kind |-> "object", fields |-> {<<"rocket_id", "r1">>}]
      [] args_json = "{\"rocket_id\": \"\"}"   -> [kind |-> "object", fields |-> {<<"rocket_id", "">>}]
      [] args_json = "{\"launchpad_id\": \"lp1\"}" ->
                                       [kind |-> "object", fields |-> {<<"launchpad_id", "lp1">>}]
      [] args_json = "{\"launchpad_id\": \"\"}" ->
                                       [kind |-> "object", fields |-> {<<"launchpad_id", "">>}]
      [] args_json = "{\"query\": \"Falcon 9\"}" ->
                                       [kind |-> "object", fields |-> {<<"query", "Falcon 9">>}]

\* lines 329-333: what the parse and validation raise, "none" when they raise nothing
validation_error(fn_name, args_json) ==
    LET args_dict == json_loads(args_json)
    IN  IF args_dict.kind = "error" THEN "JSONDecodeError"
        ELSE IF fn_name \notin DOMAIN input_models THEN "KeyError"
        ELSE IF args_dict.kind # "object" THEN "TypeError"
        ELSE IF \E f \in input_models[fn_name] : \A p \in args_dict.fields : p[1] # f
             THEN "ValidationError"
        ELSE "none"

\* Arguments handed to the executor unchecked.
validates_unchecked(fn_name, args_json) == TRUE

validates(fn_name, args_json) == validation_error(fn_name, args_json) = "none"

\* Every name taken to be registered.
in_tools_map_always(fn_name) == TRUE

\* line 323: fn_name in self.tools_map
in_tools_map(fn_name) == fn_name \in tools_map

\* The tool calls taken last first.
tool_call_reversed(tool_calls, i) == tool_calls[Len(tool_calls) - i + 1]

\* line 309: the i-th tool_call of the for loop
tool_call_at(tool_calls, i) == tool_calls[i]

\* The exception swallowed with nothing appended.
ToolExceptionSwallowed(msgs, tool_id, detail) == msgs

\* lines 359-375: the except branch, appending the error observation
ToolExceptionHandler(msgs, tool_id, detail) ==
    Append(msgs, ToolMessage(tool_id, ErrorContent(detail)))

----------------------------------------------------------------------------
(* What the model (the LLM) may answer *)

\* (name, arguments) of the tool-call requests a response may carry
RequestShapes ==
    { [name |-> "launch_rocket",      arguments |-> "{}"],
      [name |-> "get_rocket_details", arguments |-> "{"],
      [name |-> "get_rocket_details", arguments |-> "{}"],
      [name |-> "get_rocket_details", arguments |-> "{\"rocket_id\": \"r1\"}"] }

\* message.tool_calls built from n shapes, with fresh ids first_id+1 .. first_id+n
ToolCalls(shapes, first_id) ==
    [j \in 1..Len(shapes) |->
        [id |-> first_id + j, name |-> shapes[j].name, arguments |-> shapes[j].arguments]]

Responses(first_id) ==
    { ToolCalls(shapes, first_id) :
        shapes \in UNION { [1..n -> RequestShapes] : n \in 0..(MaxToolCalls - first_id) } }

----------------------------------------------------------------------------
(* JSON values, as response.json() yields them and json.dumps writes them *)

\* None
JNull == [t |-> "null", s |-> "", items |-> <<>>]

\* a scalar, written by its text
JStr(x) == [t |-> "str", s |-> x, items |-> <<>>]

\* a list of values
JList(xs) == [t |-> "list", s |-> "", items |-> xs]

\* a dict: its entries [key, val] in insertion order
JDict(entries) == [t |-> "dict", s |-> "", items |-> entries]

Entry(key, val) == [key |-> key, val |-> val]

\* str.endswith
endswith(str, suffix) ==
    /\ Len(str) >= Len(suffix)
    /\ SubSeq(str, Len(str) - Len(suffix) + 1, Len(str)) = suffix

\* dict.get(key, default)
dict_get(d, key, default) ==
    IF \E i \in 1..Len(d.items) : d.items[i].key = key
      THEN d.items[CHOOSE i \in 1..Len(d.items) : d.items[i].key = key].val
      ELSE default

\* json.dumps of a value
RECURSIVE json_dumps(_)
RECURSIVE json_dumps_join(_, _)
json_dumps_join(d, i) ==
    IF i > Len(d.items) THEN ""
    ELSE (IF i > 1 THEN ", " ELSE "")
         \o (IF d.t = "dict"
               THEN "\"" \o d.items[i].key \o "\": " \o json_dumps(d.items[i].val)
               ELSE json_dumps(d.items[i]))
         \o json_dumps_join(d, i + 1)
json_dumps(d) ==
    CASE d.t = "null" -> "null"
      [] d.t = "str"  -> "\"" \o d.s \o "\""
      [] d.t = "list" -> "[" \o json_dumps_join(d, 1) \o "]"
      [] d.t = "dict" -> "{" \o json_dumps_join(d, 1) \o "}"

----------------------------------------------------------------------------
(* SpaceXClient._clean_data *)

is_not_none(item) == item.t # "null"

\* Only the first None of the list removed.
without_first_none(items) ==
    IF \A i \in 1..Len(items) : is_not_none(items[i]) THEN items
    ELSE LET f == CHOOSE i \in 1..Len(items) :
                      /\ ~is_not_none(items[i])
                      /\ \A j \in 1..(i - 1) : is_not_none(items[j])
         IN  SubSeq(items, 1, f - 1) \o SubSeq(items, f + 1, Len(items))

\* line 70: the items of the list comprehension, [... for item in data if item is not None]
without_none(items) == SelectSeq(items, is_not_none)

\* line 75: the entries data.items() that are kept
kept_entry(e) ==
    /\ is_not_none(e.val)
    /\ ~endswith(e.key, "_id")
    /\ e.key \notin {"ships", "capsules", "payloads"}

RECURSIVE _clean_data(_)
_clean_data(d) ==
    IF d.t = "list"
      THEN LET kept == without_none(d.items)
           IN  JList([i \in 1..Len(kept) |-> _clean_data(kept[i])])
    ELSE IF d.t = "dict"
      THEN LET kept == SelectSeq(d.items, kept_entry)
           IN  JDict([i \in 1..Len(kept) |-> Entry(kept[i].key, _clean_data(kept[i].val))])
    ELSE d

----------------------------------------------------------------------------
(* The variables outside the chat loop, at rest *)

NoRequest == [method |-> "none", endpoint |-> ""]

NoResult == [kind |-> "none", value |-> JNull, exc |-> ""]

ClientIdle ==
    /\ request = NoRequest
    /\ attempts = <<>>
    /\ wiki = <<>>
    /\ result = NoResult

NoMain ==
    /\ main_pc = "none"
    /\ closes = 0

NoCleanCall ==
    /\ data = JNull
    /\ cleaned = <<>>

----------------------------------------------------------------------------
(* SpaceXAgent.__init__ *)

\* line 145: self.max_history = 20
DefaultMaxHistory == 20

\* max_history is an attribute of the agent that its callers may set (the integration test
\* reads it): besides the value __init__ gives it, the agent is run with small values, for
\* which _prune_memory drops messages within the bounds of the model.
Init ==
    /\ messages = <<SystemMessage>>
    /\ max_history \in (1..MaxHistory) \cup {DefaultMaxHistory}
    /\ pc = "idle"
    /\ pending = <<>>
    /\ k = 0
    /\ in_flight = {}
    /\ invoked = <<>>
    /\ client_calls = {}
    /\ model_calls = 0
    /\ call_len = 0
    /\ ret = "none"
    /\ turn = 0
    /\ next_id = 0
    /\ log0 = <<SystemMessage>>
    /\ ClientIdle /\ NoMain /\ NoCleanCall

----------------------------------------------------------------------------
(* SpaceXAgent.chat *)

\* lines 253-255 and the first pass into the while loop (the first model call is issued)
ChatCall(user_input) ==
    /\ pc = "idle"
    /\ turn < MaxTurns
    /\ messages' = _prune_memory(Append(messages, UserMessage(user_input)), max_history)
    /\ pc' = "llm"
    /\ model_calls' = 1
    /\ call_len' = Len(messages')
    /\ ret' = "none"
    /\ turn' = turn + 1
    /\ pending' = <<>>
    /\ k' = 0
    /\ invoked' = <<>>
    /\ client_calls' = {}
    /\ UNCHANGED <<max_history, in_flight, next_id, log0, aux>>

\* The failure of the model call raised to the caller of chat.
LLMFailRaises ==
    /\ pc = "llm"
    /\ pc' = "idle"
    /\ ret' = "raised"
    /\ pending' = <<>>
    /\ k' = 0
    /\ UNCHANGED <<messages, max_history, in_flight, invoked, client_calls, model_calls,
                   call_len, turn, next_id, log0, aux>>

\* lines 277-281: the model call raises; chat prints the error and returns
LLMFail ==
    /\ pc = "llm"
    /\ pc' = "idle"
    /\ ret' = "llm_error"
    /\ pending' = <<>>
    /\ k' = 0
    /\ UNCHANGED <<messages, max_history, in_flight, invoked, client_calls, model_calls,
                   call_len, turn, next_id, log0, aux>>

\* The loop left after any response, tool calls or not.
LLMRespondAlwaysBreaks ==
    /\ pc = "llm"
    /\ \E tool_calls \in Responses(next_id) :
          /\ messages' = Append(messages, AssistantMessage(tool_calls))
          /\ next_id' = next_id + Len(tool_calls)
          /\ pc' = "idle" /\ ret' = "done" /\ pending' = <<>> /\ k' = 0
    /\ UNCHANGED <<max_history, in_flight, invoked, client_calls, model_calls, call_len,
                   turn, log0, aux>>

\* lines 285-303: the response is appended; without tool calls the loop breaks and chat returns
LLMRespond ==
    /\ pc = "llm"
    /\ \E tool_calls \in Responses(next_id) :
          /\ messages' = Append(messages, AssistantMessage(tool_calls))
          /\ next_id' = next_id + Len(tool_calls)
          /\ IF tool_calls = <<>>
               THEN pc' = "idle" /\ ret' = "done" /\ pending' = <<>> /\ k' = 0
               ELSE pc' = "tools" /\ ret' = ret /\ pending' = tool_calls /\ k' = 1
    /\ UNCHANGED <<max_history, in_flight, invoked, client_calls, model_calls, call_len,
                   turn, log0, aux>>

\* The loop left after the first batch of tool calls instead of asking the model again.
AdvanceCapped(new_messages) ==
    IF k < Len(pending)
      THEN pc' = "tools" /\ k' = k + 1 /\ UNCHANGED <<model_calls, call_len>>
      ELSE pc' = "idle" /\ k' = k /\ UNCHANGED <<model_calls, call_len>>

\* the end of one pass of the for loop: the next tool call, or back to the top of the
\* while loop, where the next model call is issued with the log as it now is
Advance(new_messages) ==
    IF k < Len(pending)
      THEN pc' = "tools" /\ k' = k + 1 /\ UNCHANGED <<model_calls, call_len>>
      ELSE pc' = "llm" /\ k' = k /\ model_calls' = model_calls + 1
           /\ call_len' = Len(new_messages)

\* lines 309-339 and 359-387: one tool call up to its observation, or up to the await
\* of its executor
DispatchTool ==
    /\ pc = "tools"
    /\ LET tool_call == tool_call_at(pending, k)
           fn_name   == tool_call.name
           args_json == tool_call.arguments
           tool_id   == tool_call.id
       IN  IF in_tools_map(fn_name)
             THEN IF validates(fn_name, args_json)
                    THEN /\ pc' = "exec"
                         /\ in_flight' = in_flight \cup {tool_id}
                         /\ invoked' = Append(invoked, tool_id)
                         /\ client_calls' = client_calls \cup {tool_id}
                         /\ UNCHANGED <<messages, k, model_calls, call_len>>
                    ELSE /\ messages' = ToolExceptionHandler(messages, tool_id,
                                            validation_error(fn_name, args_json))
                         /\ Advance(messages')
                         /\ UNCHANGED <<in_flight, invoked, client_calls>>
             ELSE /\ messages' = Append(messages, ToolMessage(tool_id, NotFoundContent(fn_name)))
                  /\ Advance(messages')
                  /\ UNCHANGED <<in_flight, invoked, client_calls>>
    /\ UNCHANGED <<max_history, pending, ret, turn, next_id, log0, aux>>

\* The log pruned again after the observation is appended.
ExecReturnPrunes ==
    /\ pc = "exec"
    /\ LET tool_id == tool_call_at(pending, k).id
       IN  /\ in_flight' = in_flight \ {tool_id}
           /\ messages' = _prune_memory(Append(messages, ToolMessage(tool_id, ResultContent)),
                                        max_history)
           /\ Advance(messages')
    /\ UNCHANGED <<max_history, pending, invoked, client_calls, ret, turn, next_id, log0, aux>>

\* lines 339-355: the executor returns a result that json.dumps serialises
ExecReturn ==
    /\ pc = "exec"
    /\ LET tool_id == tool_call_at(pending, k).id
       IN  /\ in_flight' = in_flight \ {tool_id}
           /\ messages' = Append(messages, ToolMessage(tool_id, ResultContent))
           /\ Advance(messages')
    /\ UNCHANGED <<max_history, pending, invoked, client_calls, ret, turn, next_id, log0, aux>>

\* lines 353 and 359-375: the executor returns, json.dumps(result) raises TypeError
ExecNonSerializable ==
    /\ pc = "exec"
    /\ LET tool_id == tool_call_at(pending, k).id
       IN  /\ in_flight' = in_flight \ {tool_id}
           /\ messages' = ToolExceptionHandler(messages, tool_id, "TypeError")
           /\ Advance(messages')
    /\ UNCHANGED <<max_history, pending, invoked, client_calls, ret, turn, next_id, log0, aux>>

\* the exceptions an executor lets out: tenacity's RetryError after the last retried
\* attempt, or the exception of a request that is not retried, unchanged
ExecutorExceptions == {"RetryError", "WriteTimeout"}

\* The executor's exception leaving chat.
ExecRaisePropagates(exc) ==
    /\ pc = "exec"
    /\ in_flight' = in_flight \ {tool_call_at(pending, k).id}
    /\ pc' = "idle" /\ ret' = "raised" /\ pending' = <<>> /\ k' = 0
    /\ UNCHANGED <<messages, max_history, invoked, client_calls, model_calls, call_len,
                   turn, next_id, log0, aux>>

\* lines 339 and 359-375: the executor raises exc; str(e) goes into the error observation
ExecRaise(exc) ==
    /\ pc = "exec"
    /\ LET tool_id == tool_call_at(pending, k).id
       IN  /\ in_flight' = in_flight \ {tool_id}
           /\ messages' = ToolExceptionHandler(messages, tool_id, exc)
           /\ Advance(messages')
    /\ UNCHANGED <<max_history, pending, invoked, client_calls, ret, turn, next_id, log0, aux>>

Next ==
    \/ \E user_input \in UserInputs : ChatCall(user_input)
    \/ LLMFail
    \/ LLMRespond
    \/ DispatchTool
    \/ ExecReturn
    \/ ExecNonSerializable
    \/ \E exc \in ExecutorExceptions : ExecRaise(exc)

Spec == Init /\ [][Next]_vars

----------------------------------------------------------------------------
(* SpaceXClient._get and _post under tenacity's @retry *)

\* stop_after_attempt(3)
StopAfterAttempt == 3

\* retry_if_exception_type((...))
ConnectionErrors == {"ConnectTimeout", "ReadTimeout", "ConnectError", "RemoteProtocolError"}

Exception(exc) == [kind |-> "exception", detail |-> exc]

Response(status) == [kind |-> "response", detail |-> status]

\* what one self.client.get / post may do: raise a connection-level error, raise another
\* exception, or bring a response with a status
AttemptOutcomes ==
    { Exception(exc) : exc \in ConnectionErrors \cup {"WriteTimeout"} }
    \cup { Response(status) : status \in {"200", "404", "500"} }

\* response.raise_for_status() raises nothing
is_success(status) == SubSeq(status, 1, 1) = "2"

\* response.json() of the data API: an object for the entity endpoints, a page of docs for
\* /launches/query
response_json(endpoint) ==
    LET launch == JDict(<<Entry("name", JStr("x")), Entry("rocket_id", JStr("x")),
                          Entry("details", JNull), Entry("ships", JList(<<JStr("x")>>))>>)
    IN  IF endpoint = "/launches/query"
          THEN JDict(<<Entry("docs", JList(<<launch>>)), Entry("totalDocs", JStr("1"))>>)
          ELSE launch

Returned(value) == [kind |-> "returned", value |-> value, exc |-> ""]

Raised(exc) == [kind |-> "raised", value |-> JNull, exc |-> exc]

\* {"error": ...}
ErrorDict(text) == JDict(<<Entry("error", JStr(text))>>)

\* One attempt more than the ceiling allowed.
stop_late(n) == n > StopAfterAttempt

\* stop=stop_after_attempt(3), asked after attempt number n failed
stop(n) == n >= StopAfterAttempt

\* retry=retry_if_exception_type(...)
retry_if_exception_type(exc) == exc \in ConnectionErrors

\* The status error raised into the retry machinery like a connection-level error.
HTTPStatusErrorRetried(n, status) ==
    [again |-> ~stop(n), result |-> IF stop(n) THEN Raised("RetryError") ELSE NoResult]

\* lines 35-37 and 55-57: except httpx.HTTPStatusError, the structured error is returned
HTTPStatusErrorHandler(n, status) ==
    [again |-> FALSE, result |-> Returned(ErrorDict("API returned " \o status))]

\* attempt number n of the decorated call: whether tenacity runs the function again, and
\* what the call gives its caller if not
attempt(n, outcome, endpoint) ==
    IF outcome.kind = "response"
      THEN IF is_success(outcome.detail)
             THEN [again |-> FALSE, result |-> Returned(_clean_data(response_json(endpoint)))]
             ELSE HTTPStatusErrorHandler(n, outcome.detail)
    ELSE IF ~retry_if_exception_type(outcome.detail)
      THEN [again |-> FALSE, result |-> Raised(outcome.detail)]
    ELSE IF stop(n)
      THEN [again |-> FALSE, result |-> Raised("RetryError")]
    ELSE [again |-> TRUE, result |-> NoResult]

----------------------------------------------------------------------------
(* The executors of tools.py and the client methods they call *)

\* input_data.<field> of the validated input
field(args_json, name) ==
    LET fields == json_loads(args_json).fields
    IN  (CHOOSE p \in fields : p[1] = name)[2]

\* the _get / _post call the executor of fn_name makes
client_request(fn_name, args_json) ==
    CASE fn_name = "get_next_launch"   -> [method |-> "GET", endpoint |-> "/launches/next"]
      [] fn_name = "get_latest_launch" -> [method |-> "GET", endpoint |-> "/launches/latest"]
      [] fn_name = "get_company_info"  -> [method |-> "GET", endpoint |-> "/company"]
      [] fn_name = "get_rocket_details" ->
            [method |-> "GET", endpoint |-> "/rockets/" \o field(args_json, "rocket_id")]
      [] fn_name = "get_launchpad_details" ->
            [method |-> "GET", endpoint |-> "/launchpads/" \o field(args_json, "launchpad_id")]
      [] fn_name = "query_launches"    -> [method |-> "POST", endpoint |-> "/launches/query"]

\* what the executor returns from what its client call returned
executor_return(fn_name, value) ==
    IF fn_name = "query_launches" THEN dict_get(value, "docs", JList(<<>>)) ELSE value

----------------------------------------------------------------------------
(* SpaceXClient.get_wikipedia_summary *)

\* str.replace(old, new) for a one-character old
RECURSIVE replace(_, _, _)
replace(str, old, new) ==
    IF Len(str) = 0 THEN ""
    ELSE (IF SubSeq(str, 1, 1) = old THEN new ELSE SubSeq(str, 1, 1))
         \o replace(SubSeq(str, 2, Len(str)), old, new)

\* Every value taken to be true.
truthy_always(v) == TRUE

\* the truth value Python gives a JSON value
truthy(v) ==
    CASE v.t = "null" -> FALSE
      [] v.t = "str"  -> v.s # ""
      [] OTHER        -> v.items # <<>>

WikiOutcome(kind, detail, value) == [kind |-> kind, detail |-> detail, value |-> value]

search_url == "https://en.wikipedia.org/w/api.php"

WIKIPEDIA_API == "https://en.wikipedia.org/api/rest_v1/page/summary"

\* what the search request may do: raise, answer with a body that is not JSON, answer with
\* JSON: [query, [titles], ...], with or without a title, or of another form
SearchOutcomes(query) ==
    { WikiOutcome("exception", "ConnectError", JNull),
      WikiOutcome("invalid_json", "<html>", JNull),
      WikiOutcome("json", "", JList(<<JStr(query), JList(<<JStr("Falcon 9")>>)>>)),
      WikiOutcome("json", "", JList(<<JStr(query), JList(<<>>)>>)),
      WikiOutcome("json", "", JList(<<JStr(query), JNull>>)),
      WikiOutcome("json", "", JList(<<>>)),
      WikiOutcome("json", "", JDict(<<Entry("error", JStr("x"))>>)) }

\* what the summary request may do: raise, answer 200 with a summary object (whole or
\* partial) or with a body that is not JSON, answer with another status
SummaryOutcomes ==
    { WikiOutcome("exception", "ReadTimeout", JNull),
      WikiOutcome("200", "", JDict(<<Entry("title", JStr("Falcon 9")),
                                     Entry("extract", JStr("x")),
                                     Entry("content_urls", JDict(<<Entry("desktop",
                                          JDict(<<Entry("page", JStr("url"))>>))>>))>>)),
      WikiOutcome("200", "", JDict(<<Entry("title", JStr("Falcon 9"))>>)),
      WikiOutcome("200", "JSONDecodeError", JNull),
      WikiOutcome("404", "", JNull) }

\* line 149: except Exception as e
WikipediaFailed(detail) == Returned(ErrorDict("Wikipedia fallback failed: " \o detail))

\* lines 120-131: the search step; title is the page title when the summary step follows
wikipedia_search(query, outcome) ==
    LET search_data == outcome.value
        done(r) == [summary |-> FALSE, title |-> "", result |-> r]
    IN  IF outcome.kind = "exception" THEN done(WikipediaFailed(outcome.detail))
        ELSE IF outcome.kind = "invalid_json"
          THEN done(Returned(ErrorDict("Wikipedia Search API returned invalid JSON: "
                                         \o outcome.detail)))
        ELSE IF search_data.t = "dict" THEN done(WikipediaFailed("KeyError"))
        ELSE IF Len(search_data.items) < 2 THEN done(WikipediaFailed("IndexError"))
        ELSE LET titles == search_data.items[2]
             IN  IF ~truthy(titles)
                   THEN done(Returned(ErrorDict("No Wikipedia page found for '"
                                                  \o query \o "'.")))
                 ELSE IF titles.t = "null" THEN done(WikipediaFailed("TypeError"))
                 ELSE IF titles.items = <<>> THEN done(WikipediaFailed("IndexError"))
                 ELSE [summary |-> TRUE, title |-> titles.items[1].s, result |-> NoResult]

\* line 135
summary_url(correct_title) == WIKIPEDIA_API \o "/" \o replace(correct_title, " ", "_")

\* lines 136-146: the summary step
wikipedia_summary(correct_title, outcome) ==
    LET d == outcome.value
    IN  IF outcome.kind = "exception" THEN WikipediaFailed(outcome.detail)
        ELSE IF outcome.kind = "200"
          THEN IF outcome.detail # "" THEN WikipediaFailed(outcome.detail)
               ELSE Returned(JDict(<<
                      Entry("title", dict_get(d, "title", JNull)),
                      Entry("summary", dict_get(d, "extract", JNull)),
                      Entry("source_url",
                            dict_get(dict_get(dict_get(d, "content_urls", JDict(<<>>)),
                                              "desktop", JDict(<<>>)),
                                     "page", JStr("")))>>))
        ELSE Returned(ErrorDict("Failed to fetch summary for '" \o correct_title \o "'."))

----------------------------------------------------------------------------
(* One tool call of chat, followed through its executor and the client *)

\* (name, arguments) of the tool call followed
ExecShapes ==
    { [name |-> "get_next_launch",       arguments |-> "{}"],
      [name |-> "get_latest_launch",     arguments |-> "{}"],
      [name |-> "get_company_info",      arguments |-> "{}"],
      [name |-> "get_rocket_details",    arguments |-> "{}"],
      [name |-> "get_rocket_details",    arguments |-> "{\"rocket_id\": \"\"}"],
      [name |-> "get_rocket_details",    arguments |-> "{\"rocket_id\": \"r1\"}"],
      [name |-> "get_launchpad_details", arguments |-> "{}"],
      [name |-> "get_launchpad_details", arguments |-> "{\"launchpad_id\": \"\"}"],
      [name |-> "get_launchpad_details", arguments |-> "{\"launchpad_id\": \"lp1\"}"],
      [name |-> "get_wikipedia_summary", arguments |-> "{\"query\": \"Falcon 9\"}"],
      [name |-> "query_launches",        arguments |-> "{}"] }

\* chat has appended the model's response, which carries one tool call
ExecInit ==
    /\ \E shape \in ExecShapes :
          /\ pending = ToolCalls(<<shape>>, 0)
          /\ messages = <<SystemMessage, UserMessage("What is the Falcon 9?"),
                          AssistantMessage(pending)>>
    /\ max_history = DefaultMaxHistory
    /\ pc = "tools"
    /\ k = 1
    /\ in_flight = {}
    /\ invoked = <<>>
    /\ client_calls = {}
    /\ model_calls = 1
    /\ call_len = 2
    /\ ret = "none"
    /\ turn = 1
    /\ next_id = 1
    /\ log0 = <<SystemMessage>>
    /\ ClientIdle /\ NoMain /\ NoCleanCall

\* tools.py: the executor is entered and makes its client call
ExecutorCall ==
    /\ pc = "exec"
    /\ LET tool_call == tool_call_at(pending, k)
       IN  IF tool_call.name = "get_wikipedia_summary"
             THEN pc' = "wiki_search" /\ request' = request
             ELSE pc' = "http" /\ request' = client_request(tool_call.name, tool_call.arguments)
    /\ UNCHANGED <<messages, max_history, pending, k, in_flight, invoked, client_calls,
                   model_calls, call_len, ret, turn, next_id, log0, attempts, wiki, result,
                   main_pc, closes, data, cleaned>>

\* client.py lines 21-60: one attempt of _get / _post
HttpAttempt(outcome) ==
    /\ pc = "http"
    /\ attempts' = Append(attempts, outcome)
    /\ LET a == attempt(Len(attempts'), outcome, request.endpoint)
       IN  /\ result' = a.result
           /\ pc' = IF a.again THEN "http" ELSE "client_returned"
    /\ UNCHANGED <<messages, max_history, pending, k, in_flight, invoked, client_calls,
                   model_calls, call_len, ret, turn, next_id, log0, request, wiki,
                   main_pc, closes, data, cleaned>>

\* client.py lines 120-131
WikiSearch ==
    /\ pc = "wiki_search"
    /\ LET query == field(tool_call_at(pending, k).arguments, "query")
       IN  \E outcome \in SearchOutcomes(query) :
              LET step == wikipedia_search(query, outcome)
              IN  /\ wiki' = Append(wiki, [step |-> "search", url |-> search_url,
                                           title |-> step.title, outcome |-> outcome])
                  /\ result' = step.result
                  /\ pc' = IF step.summary THEN "wiki_summary" ELSE "client_returned"
    /\ UNCHANGED <<messages, max_history, pending, k, in_flight, invoked, client_calls,
                   model_calls, call_len, ret, turn, next_id, log0, request, attempts,
                   main_pc, closes, data, cleaned>>

\* client.py lines 135-146
WikiSummary(outcome) ==
    /\ pc = "wiki_summary"
    /\ LET correct_title == wiki[Len(wiki)].title
       IN  /\ wiki' = Append(wiki, [step |-> "summary", url |-> summary_url(correct_title),
                                    title |-> correct_title, outcome |-> outcome])
           /\ result' = wikipedia_summary(correct_title, outcome)
    /\ pc' = "client_returned"
    /\ UNCHANGED <<messages, max_history, pending, k, in_flight, invoked, client_calls,
                   model_calls, call_len, ret, turn, next_id, log0, request, attempts,
                   main_pc, closes, data, cleaned>>

\* agent.py lines 339-375: the await of the executor ends; its result is appended as the
\* observation, its exception as the error observation
ExecFinish ==
    /\ pc = "client_returned"
    /\ LET tool_call == tool_call_at(pending, k)
       IN  /\ in_flight' = in_flight \ {tool_call.id}
           /\ messages' =
                IF result.kind = "raised"
                  THEN ToolExceptionHandler(messages, tool_call.id, result.exc)
                  ELSE Append(messages,
                              ToolMessage(tool_call.id,
                                          json_dumps(executor_return(tool_call.name,
                                                                     result.value))))
           /\ Advance(messages')
    /\ UNCHANGED <<max_history, pending, invoked, client_calls, ret, turn, next_id, log0, aux>>

NextExec ==
    \/ DispatchTool
    \/ ExecutorCall
    \/ \E outcome \in AttemptOutcomes : HttpAttempt(outcome)
    \/ WikiSearch
    \/ \E outcome \in SummaryOutcomes : WikiSummary(outcome)
    \/ ExecFinish

SpecExec == ExecInit /\ [][NextExec]_vars

----------------------------------------------------------------------------
(* main.py: the CLI loop around chat *)

\* line 13: agent = SpaceXAgent(), and the try / while True entered
MainInit ==
    /\ messages = <<SystemMessage>>
    /\ max_history = DefaultMaxHistory
    /\ pc = "idle"
    /\ pending = <<>>
    /\ k = 0
    /\ in_flight = {}
    /\ invoked = <<>>
    /\ client_calls = {}
    /\ model_calls = 0
    /\ call_len = 0
    /\ ret = "none"
    /\ turn = 0
    /\ next_id = 0
    /\ log0 = <<SystemMessage>>
    /\ main_pc = "loop"
    /\ closes = 0
    /\ ClientIdle /\ NoCleanCall

\* line 26: await agent.chat(user_input), step by step (an empty input line is skipped by
\* continue and changes nothing)
MainChat ==
    /\ main_pc = "loop"
    /\ Next
    /\ next_id' <= MaxCallerToolCalls

\* lines 18-21: the input is quit or exit, break
MainQuit ==
    /\ main_pc = "loop"
    /\ pc = "idle"
    /\ main_pc' = "finally"
    /\ UNCHANGED <<messages, max_history, pc, pending, k, in_flight, invoked, client_calls,
                   model_calls, call_len, ret, turn, next_id, log0, request, attempts, wiki,
                   result, closes, data, cleaned>>

\* lines 18 and 28-30: KeyboardInterrupt while waiting for input, break
MainInterrupt ==
    /\ main_pc = "loop"
    /\ pc = "idle"
    /\ ret' = "interrupted"
    /\ main_pc' = "finally"
    /\ UNCHANGED <<messages, max_history, pc, pending, k, in_flight, invoked, client_calls,
                   model_calls, call_len, turn, next_id, log0, request, attempts, wiki,
                   result, closes, data, cleaned>>

\* The exception from chat ending the program past the finally block.
MainChatRaisesNoFinally ==
    /\ main_pc = "loop"
    /\ pc \in {"llm", "tools", "exec"}
    /\ pc' = "idle" /\ ret' = "raised" /\ pending' = <<>> /\ k' = 0 /\ in_flight' = {}
    /\ main_pc' = "finished"
    /\ UNCHANGED <<messages, max_history, invoked, client_calls, model_calls, call_len,
                   turn, next_id, log0, request, attempts, wiki, result, closes, data,
                   cleaned>>

\* lines 26-33: an exception leaves chat (one that chat does not catch, or the interrupt or
\* cancellation of the await); whether an except clause takes it or not, the try is left
MainChatRaises ==
    /\ main_pc = "loop"
    /\ pc \in {"llm", "tools", "exec"}
    /\ pc' = "idle" /\ ret' = "raised" /\ pending' = <<>> /\ k' = 0 /\ in_flight' = {}
    /\ main_pc' = "finally"
    /\ UNCHANGED <<messages, max_history, invoked, client_calls, model_calls, call_len,
                   turn, next_id, log0, request, attempts, wiki, result, closes, data,
                   cleaned>>

\* line 36 and agent.py lines 397-399: in the finally block agent.close() is called; its
\* await may hand control to the event loop before close() returns
MainClose ==
    /\ main_pc = "finally"
    /\ closes = 0
    /\ closes' = closes + 1
    /\ UNCHANGED <<messages, max_history, pc, pending, k, in_flight, invoked, client_calls,
                   model_calls, call_len, ret, turn, next_id, log0, request, attempts, wiki,
                   result, main_pc, data, cleaned>>

\* line 36: agent.close() returns, the finally block and main() end
MainCloseReturn ==
    /\ main_pc = "finally"
    /\ closes > 0
    /\ main_pc' = "finished"
    /\ UNCHANGED <<messages, max_history, pc, pending, k, in_flight, invoked, client_calls,
                   model_calls, call_len, ret, turn, next_id, log0, request, attempts, wiki,
                   result, closes, data, cleaned>>

NextMain ==
    \/ MainChat
    \/ MainQuit
    \/ MainInterrupt
    \/ MainChatRaises
    \/ MainClose
    \/ MainCloseReturn

SpecMain == MainInit /\ [][NextMain]_vars

----------------------------------------------------------------------------
(* chat driven by a caller *)

\* the chat calls of main.py and of the integration test, step by step
TestChat ==
    /\ Next
    /\ next_id' <= MaxCallerToolCalls

----------------------------------------------------------------------------
(* chat with every model call and every tool execution completing *)

\* a step of a chat call that is under way
ChatStep ==
    /\ pc # "idle"
    /\ TestChat

\* every await of chat completes: a chat call under way takes its next step
SpecTurn == Init /\ [][TestChat]_vars /\ WF_vars(ChatStep)

----------------------------------------------------------------------------
(* _prune_memory called directly on a log, as the integration test does *)

tc1 == [id |-> 1, name |-> "get_rocket_details", arguments |-> "{}"]
tc2 == [id |-> 2, name |-> "get_rocket_details", arguments |-> "{}"]

LogAlphabet ==
    { UserMessage("Dummy"),
      AssistantMessage(<<>>),
      AssistantMessage(<<tc1>>),
      AssistantMessage(<<tc1, tc2>>),
      ToolMessage(1, ResultContent),
      ToolMessage(2, ResultContent) }

Logs ==
    { <<SystemMessage>> \o t : t \in UNION { [1..n -> LogAlphabet] : n \in 0..(MaxLog - 1) } }

PruneInit ==
    /\ messages \in Logs
    /\ max_history \in 0..(MaxLog + 1)
    /\ pc = "prune_call"
    /\ pending = <<>>
    /\ k = 0
    /\ in_flight = {}
    /\ invoked = <<>>
    /\ client_calls = {}
    /\ model_calls = 0
    /\ call_len = 0
    /\ ret = "none"
    /\ turn = 0
    /\ next_id = 0
    /\ log0 = messages
    /\ ClientIdle /\ NoMain /\ NoCleanCall

PruneCall ==
    /\ pc = "prune_call"
    /\ messages' = _prune_memory(messages, max_history)
    /\ pc' = "pruned"
    /\ UNCHANGED <<max_history, pending, k, in_flight, invoked, client_calls, model_calls,
                   call_len, ret, turn, next_id, log0, aux>>

SpecPrune == PruneInit /\ [][PruneCall]_vars

SpecAll == (Init \/ PruneInit) /\ [][Next \/ PruneCall]_vars

----------------------------------------------------------------------------
(* The pruning test of the integration test: dummy turns appended after chat calls *)

\* line 47: for i in range(25)
DummyTurns == 25

\* lines 47-50: the messages appended by the first n passes of the loop
RECURSIVE Dummies(_)
Dummies(n) ==
    IF n = 0 THEN <<>>
    ELSE Dummies(n - 1)
         \o << UserMessage("Dummy " \o ToString(n - 1)),
               [role |-> "assistant", content |-> "Response " \o ToString(n - 1),
                tool_calls |-> <<>>, tool_call_id |-> NoId] >>

\* line 12: agent = SpaceXAgent(), max_history as __init__ sets it
InjectInit ==
    /\ messages = <<SystemMessage>>
    /\ max_history = DefaultMaxHistory
    /\ pc = "idle"
    /\ pending = <<>>
    /\ k = 0
    /\ in_flight = {}
    /\ invoked = <<>>
    /\ client_calls = {}
    /\ model_calls = 0
    /\ call_len = 0
    /\ ret = "none"
    /\ turn = 0
    /\ next_id = 0
    /\ log0 = <<SystemMessage>>
    /\ ClientIdle /\ NoMain /\ NoCleanCall

\* lines 47-50: n dummy turns appended to the log the chat calls left
Inject(n) ==
    /\ pc = "idle"
    /\ messages' = messages \o Dummies(n)
    /\ pc' = "prune_call"
    /\ UNCHANGED <<max_history, pending, k, in_flight, invoked, client_calls, model_calls,
                   call_len, ret, turn, next_id, log0, aux>>

NextInject ==
    \/ TestChat
    \/ \E n \in 0..DummyTurns : Inject(n)
    \/ PruneCall

SpecInject == InjectInit /\ [][NextInject]_vars

----------------------------------------------------------------------------
(* _clean_data called directly on a JSON value *)

\* most items of a list handed to _clean_data
MaxItems == 2

JsonScalars == {JNull, JStr("x")}

JsonKeys == {"name", "rocket_id", "ships"}

Lists(V) == { JList(xs) : xs \in UNION { [1..n -> V] : n \in 0..MaxItems } }

\* dicts of up to two entries with distinct keys
Dicts(V) ==
    {JDict(<<>>)}
    \cup { JDict(<<Entry(k1, v1)>>) : k1 \in JsonKeys, v1 \in V }
    \cup { JDict(<<Entry(ks[1], v1), Entry(ks[2], v2)>>) :
              ks \in {kk \in JsonKeys \X JsonKeys : kk[1] # kk[2]}, v1 \in V, v2 \in V }

Nest(V) == JsonScalars \cup Lists(V) \cup Dicts(V)

CleanInit ==
    /\ data \in Nest(Nest(JsonScalars))     \* values nested two deep
    /\ cleaned = <<>>
    /\ pc = "clean_call"
    /\ messages = <<SystemMessage>>
    /\ max_history = DefaultMaxHistory
    /\ pending = <<>>
    /\ k = 0
    /\ in_flight = {}
    /\ invoked = <<>>
    /\ client_calls = {}
    /\ model_calls = 0
    /\ call_len = 0
    /\ ret = "none"
    /\ turn = 0
    /\ next_id = 0
    /\ log0 = <<SystemMessage>>
    /\ ClientIdle /\ NoMain

CleanCall ==
    /\ pc = "clean_call"
    /\ cleaned' = <<_clean_data(data), _clean_data(_clean_data(data))>>
    /\ pc' = "cleaned"
    /\ UNCHANGED <<messages, max_history, pending, k, in_flight, invoked, client_calls,
                   model_calls, call_len, ret, turn, next_id, log0, request, attempts, wiki,
                   result, main_pc, closes, data>>

SpecClean == CleanInit /\ [][CleanCall]_vars

----------------------------------------------------------------------------
(* Helpers of the properties *)

Last(s) == s[Len(s)]

Range(s) == {s[i] : i \in 1..Len(s)}

\* every tool message lies in a block of tool messages that directly follows an
\* assistant message whose tool_calls hold its tool_call_id
ToolBatchesIntact(log) ==
    \A p \in 1..Len(log) :
        log[p].role = "tool" =>
            \E a \in 1..(p - 1) :
                /\ log[a].role = "assistant"
                /\ \E j \in 1..Len(log[a].tool_calls) :
                       log[a].tool_calls[j].id = log[p].tool_call_id
                /\ \A q \in (a + 1)..p : log[q].role = "tool"

\* the j-th request of the response being handled has had its pass of the for loop
Answered(j) == pc = "llm" \/ j < k

NumAnswered == IF pending = <<>> THEN 0 ELSE IF pc = "llm" THEN Len(pending) ELSE k - 1

\* positions of the tool messages of the log that carry tool_call_id = id
ToolMessagesFor(id) ==
    {p \in 1..Len(messages) : messages[p].role = "tool" /\ messages[p].tool_call_id = id}

\* position in the log of the assistant message whose tool calls are being handled
AssistantPos == Len(messages) - NumAnswered

----------------------------------------------------------------------------
(* C1..C3: _prune_memory *)

\* C1: pruning never orphans a tool message: when every batch of tool messages of the log
\* directly follows the assistant message that requested it, the same is true of the log
\* after _prune_memory, for every max_history.
C1_PruneNeverOrphans ==
    (pc = "pruned" /\ ToolBatchesIntact(log0)) => ToolBatchesIntact(messages)

\* C2: pruning preserves the head: after _prune_memory, and in every state reached through
\* chat calls, the log is not empty and its first message is the system message the log
\* began with.
C2_PrunePreservesHead ==
    /\ Len(messages) >= 1
    /\ messages[1] = log0[1]
    /\ messages[1].role = "system"

\* a direct _prune_memory call that dropped messages
C2_Witness == pc = "pruned" /\ Len(messages) < Len(log0)

\* C3: pruning bounds length: for every max_history >= 1 the log after _prune_memory holds
\* at most max_history messages.
C3_PruneBoundsLength ==
    (pc = "pruned" /\ max_history >= 1) => Len(messages) <= max_history

----------------------------------------------------------------------------
(* C4..C10: chat *)

\* C4: every tool-call request of the response being handled has exactly one tool message
\* with its id in the log once its pass of the for loop is over, and none before; when
\* the next model call is issued (pc = "llm") every request of the response has exactly one.
C4_OneToolMessagePerRequest ==
    \A j \in 1..Len(pending) :
        Cardinality(ToolMessagesFor(pending[j].id)) = IF Answered(j) THEN 1 ELSE 0

\* the next model call issued after two requests ended as unknown name and as an executor
\* exception that is not a RetryError
C4_Witness ==
    /\ pc = "llm"
    /\ Len(pending) = 2
    /\ messages[Len(messages) - 1].content = NotFoundContent("launch_rocket")
    /\ messages[Len(messages)].content = ErrorContent("WriteTimeout")

\* C5: the requests of one response are dispatched one after the other in emission order:
\* at most one executor is in flight, it is the one of the request the for loop is at, every
\* earlier request has its tool message in the log, and the tool messages follow the
\* assistant message directly, in the order of the requests.
C5_SequentialDispatchInOrder ==
    /\ Cardinality(in_flight) <= 1
    /\ in_flight = IF pc = "exec" THEN {pending[k].id} ELSE {}
    /\ \A i \in 1..Len(invoked) : \A j \in 1..Len(invoked) : i < j => invoked[i] < invoked[j]
    /\ pending # <<>> =>
          /\ AssistantPos >= 1
          /\ messages[AssistantPos] = AssistantMessage(pending)
          /\ \A j \in 1..NumAnswered :
                /\ messages[AssistantPos + j].role = "tool"
                /\ messages[AssistantPos + j].tool_call_id = pending[j].id
          /\ \A j \in 1..Len(pending) :
                pending[j].id \in Range(invoked) =>
                    \A i \in 1..(j - 1) : ToolMessagesFor(pending[i].id) # {}

\* the executor of the second request in flight after the first was answered by its own
C5_Witness ==
    /\ pc = "exec"
    /\ k = 2
    /\ invoked = <<pending[1].id, pending[2].id>>
    /\ in_flight = {pending[2].id}
    /\ messages[Len(messages)].role = "tool"
    /\ messages[Len(messages)].tool_call_id = pending[1].id
    /\ messages[Len(messages) - 1].role = "assistant"

\* C6: an unknown tool never executes: a request whose name is not in tools_map never has
\* its executor invoked nor a client method called, and it is answered by the
\* "Tool <name> not found" error observation.
C6_UnknownToolNeverExecutes ==
    \A j \in 1..Len(pending) :
        pending[j].name \notin tools_map =>
            /\ pending[j].id \notin Range(invoked)
            /\ pending[j].id \notin client_calls
            /\ pending[j].id \notin in_flight
            /\ Answered(j) =>
                  messages[AssistantPos + j] =
                      ToolMessage(pending[j].id, NotFoundContent(pending[j].name))

\* an unknown request answered in a chat call that also invoked an executor
C6_Witness ==
    /\ Len(invoked) >= 1
    /\ \E j \in 1..Len(pending) : pending[j].name \notin tools_map /\ Answered(j)

\* C7: invalid arguments never execute: a request for a known tool whose arguments fail to
\* parse or to validate never has its executor invoked, and it is answered by a
\* "Tool Execution Error: ..." observation carrying the parse or validation error.
C7_InvalidArgumentsNeverExecute ==
    \A j \in 1..Len(pending) :
        (pending[j].name \in tools_map
            /\ validation_error(pending[j].name, pending[j].arguments) # "none") =>
            /\ pending[j].id \notin Range(invoked)
            /\ pending[j].id \notin client_calls
            /\ pending[j].id \notin in_flight
            /\ Answered(j) =>
                  messages[AssistantPos + j] =
                      ToolMessage(pending[j].id,
                          ErrorContent(validation_error(pending[j].name, pending[j].arguments)))

\* a response whose requests failed to parse and failed to validate, both answered
C7_Witness ==
    /\ pc = "llm"
    /\ \E i \in 1..Len(pending) : \E j \in 1..Len(pending) :
          /\ messages[AssistantPos + i].content = ErrorContent("JSONDecodeError")
          /\ messages[AssistantPos + j].content = ErrorContent("ValidationError")

\* C8: a failing tool never aborts the turn: chat never raises, and every step that ends
\* the await of an executor, the executor's exception included, appends one tool message
\* for that request (an error observation or the result) and goes on to the next request
\* or, after the last, to the next model call.
C8_FailingToolNeverAborts ==
    /\ [](ret # "raised")
    /\ [][pc = "exec" =>
            /\ messages' = Append(messages, Last(messages'))
            /\ Last(messages').role = "tool"
            /\ Last(messages').tool_call_id = pending[k].id
            /\ Last(messages').content \in
                  {ResultContent, ErrorContent("TypeError")}
                  \cup {ErrorContent(exc) : exc \in ExecutorExceptions}
            /\ pending' = pending
            /\ ret' = ret
            /\ IF k < Len(pending)
                 THEN pc' = "tools" /\ k' = k + 1
                 ELSE pc' = "llm" /\ model_calls' = model_calls + 1]_vars

\* the executor of the first request raised, the second request was still dispatched and
\* the next model call was issued
C8_Witness ==
    /\ pc = "llm"
    /\ Len(pending) >= 2
    /\ messages[AssistantPos + 1].content = ErrorContent("RetryError")
    /\ messages[AssistantPos + 2].role = "tool"

\* C9: when a model call fails chat returns without raising and leaves the log as it was
\* when the call was issued: a step out of the wait for the model either appends the
\* response or changes nothing in the log and ends the chat call with "llm_error"; and
\* after such an end a further chat call can be made.
C9_LLMFailureLeavesLog ==
    /\ [](ret # "raised")
    /\ []((pc = "idle" /\ ret = "llm_error" /\ turn < MaxTurns) =>
            ENABLED (\E user_input \in UserInputs : ChatCall(user_input)))
    /\ [][pc = "llm" =>
            \/ /\ messages' = messages
               /\ pc' = "idle"
               /\ ret' = "llm_error"
            \/ /\ messages' = Append(messages, Last(messages'))
               /\ Last(messages').role = "assistant"
               /\ ret' \in {"none", "done"}]_vars

\* a chat call that ended normally after an earlier one ended on a failed first model call
\* (its user message is followed directly by the next one)
C9_Witness ==
    /\ turn = 2
    /\ ret = "done"
    /\ \E p \in 1..(Len(messages) - 1) :
          messages[p].role = "user" /\ messages[p + 1].role = "user"

\* C10: chat returns normally ("done") only by the step that appends an assistant message
\* without tool calls, which is then the last message of the log; with a single model call
\* the chat call appended that one message and nothing else; a response with tool calls
\* starts the dispatch, and the dispatch always ends in the next model call.
C10_ReturnAfterPlainAnswer ==
    /\ []((pc = "idle" /\ ret = "done") =>
            /\ Last(messages) = AssistantMessage(<<>>)
            /\ model_calls = 1 => Len(messages) = call_len + 1)
    /\ [][(ret' = "done" /\ ret # "done") =>
            /\ pc = "llm"
            /\ messages' = Append(messages, AssistantMessage(<<>>))]_vars
    /\ [][(pc = "llm" /\ messages' # messages /\ Last(messages').tool_calls # <<>>) =>
            /\ pc' = "tools"
            /\ pending' = Last(messages').tool_calls
            /\ k' = 1]_vars
    /\ [][(pc \in {"tools", "exec"} /\ pc' \notin {"tools", "exec"}) =>
            /\ pc' = "llm"
            /\ k = Len(pending)
            /\ model_calls' = model_calls + 1]_vars

\* a second chat call answered at its first model call, after a first chat call that
\* dispatched tools and then made another model call
C10_Witness ==
    /\ turn = 2
    /\ pc = "idle"
    /\ ret = "done"
    /\ model_calls = 1
    /\ \E p \in 1..Len(messages) : messages[p].role = "tool"

----------------------------------------------------------------------------
(* C11..C20 *)

\* every attempt so far failed with a connection-level error
AllConnectionErrors ==
    \A i \in 1..Len(attempts) :
        attempts[i].kind = "exception" /\ attempts[i].detail \in ConnectionErrors

\* attempt i was answered with a 4xx/5xx status
StatusError(i) == attempts[i].kind = "response" /\ ~is_success(attempts[i].detail)

\* the tool call followed names a fetch-by-id tool and gives no identifier or the empty one
MissingOrEmptyId ==
    LET tool_call == pending[1]
        args_dict == json_loads(tool_call.arguments)
    IN  /\ tool_call.name \in {"get_rocket_details", "get_launchpad_details"}
        /\ \A p \in args_dict.fields :
              p[1] \in input_models[tool_call.name] => p[2] = ""

\* the search answered [query, titles, ...] with no title in titles
NoTitleFound ==
    /\ wiki # <<>>
    /\ wiki[1].outcome.kind = "json"
    /\ wiki[1].outcome.value.t = "list"
    /\ Len(wiki[1].outcome.value.items) >= 2
    /\ wiki[1].outcome.value.items[2].items = <<>>

\* C11: retry ceiling: a _get / _post call whose every attempt fails with a connection-level
\* error is attempted exactly 3 times and then raises; there is never a fourth attempt.
C11_RetryCeiling ==
    /\ Len(attempts) <= StopAfterAttempt
    /\ (attempts # <<>> /\ AllConnectionErrors) =>
          IF Len(attempts) < StopAfterAttempt
            THEN pc = "http" /\ result = NoResult
            ELSE pc # "http" /\ result = Raised("RetryError")

\* three connection-level failures in a row, the call has raised and chat has logged it
C11_Witness ==
    /\ Len(attempts) = StopAfterAttempt
    /\ AllConnectionErrors
    /\ result = Raised("RetryError")
    /\ pc = "llm"
    /\ Last(messages) = ToolMessage(pending[1].id, ErrorContent("RetryError"))

\* C12 as stated: when the data API answers with a 4xx/5xx status, the call has made exactly
\* one attempt and returns {"error": ...} naming the status.
C12_StatusErrorOneAttempt ==
    \A i \in 1..Len(attempts) :
        StatusError(i) =>
            /\ Len(attempts) = 1
            /\ result = Returned(ErrorDict("API returned " \o attempts[i].detail))

\* C12 amended: the attempt answered with a 4xx/5xx status is never retried: it is the last
\* attempt of the call, whatever number of connection-level failures came before it, and the
\* call returns {"error": "API returned <status>"} instead of raising.
C12_StatusErrorNeverRetried ==
    \A i \in 1..Len(attempts) :
        StatusError(i) =>
            /\ i = Len(attempts)
            /\ pc # "http"
            /\ result = Returned(ErrorDict("API returned " \o attempts[i].detail))

\* a connection-level failure, then a 500: two attempts, the error returned and logged
C12_Witness ==
    /\ Len(attempts) = 2
    /\ attempts[2] = Response("500")
    /\ result = Returned(ErrorDict("API returned 500"))
    /\ pc = "llm"
    /\ Last(messages).content = "{\"error\": \"API returned 500\"}"

\* C13: for every tool of the registry, a non-2xx answer of the data API during the tool's
\* execution reaches the log: the tool message of the request carries the error payload.
C13_AppErrorReachesLog ==
    (pc = "llm" /\ attempts # <<>> /\ StatusError(Len(attempts))) =>
        Last(messages) =
            ToolMessage(pending[1].id,
                        json_dumps(ErrorDict("API returned " \o Last(attempts).detail)))

\* C14: a get_rocket_details / get_launchpad_details request whose identifier is missing or
\* empty fails validation: the executor is not invoked and an error observation is logged.
C14_NonEmptyIdentifierRequired ==
    MissingOrEmptyId =>
        /\ invoked = <<>>
        /\ request = NoRequest
        /\ pc = "llm" => Last(messages) =
                             ToolMessage(pending[1].id, ErrorContent("ValidationError"))

\* C16: on every path by which the CLI loop ends (quit/exit, keyboard interrupt, exception
\* from chat), agent.close() is run exactly once before the program finishes: close() is
\* never called twice, a finished program has called it once, a program in its loop has
\* not called it, and in the finally block the call, then its return, is what comes next.
C16_CloseExactlyOnce ==
    /\ closes <= 1
    /\ main_pc = "finished" => closes = 1
    /\ main_pc = "loop" => closes = 0
    /\ main_pc = "finally" =>
          IF closes = 0 THEN ENABLED MainClose ELSE ENABLED MainCloseReturn

\* the program finished after an exception left chat in the middle of a tool batch
C16_Witness ==
    /\ main_pc = "finished"
    /\ closes = 1
    /\ ret = "raised"
    /\ Last(messages).role = "assistant"
    /\ Last(messages).tool_calls # <<>>

\* C17: the encyclopedia fallback issues the summary request only after a search that
\* returned a title; a search without a title ends the operation with the not-found error
\* and no summary request; whatever the two requests do, the operation returns.
C17_SearchThenSummary ==
    /\ \A i \in 1..Len(wiki) :
          wiki[i].step = "summary" =>
              /\ i = 2
              /\ wiki[1].step = "search"
              /\ wiki[1].outcome.kind = "json"
              /\ wiki[1].outcome.value.items[2].items # <<>>
              /\ wiki[i].title = wiki[1].outcome.value.items[2].items[1].s
    /\ NoTitleFound =>
          /\ Len(wiki) = 1
          /\ result = Returned(ErrorDict("No Wikipedia page found for 'Falcon 9'."))
    /\ wiki # <<>> =>
          /\ result.kind # "raised"
          /\ pc = "llm" => Last(messages) =
                               ToolMessage(pending[1].id, json_dumps(result.value))

\* the search found the title, the summary was fetched for it and logged
C17_Witness ==
    /\ Len(wiki) = 2
    /\ wiki[2].url = "https://en.wikipedia.org/api/rest_v1/page/summary/Falcon_9"
    /\ wiki[2].outcome.kind = "200"
    /\ pc = "llm"
    /\ dict_get(result.value, "summary", JNull) = JStr("x")

\* C18: pruning is suffix-aligned: for every log and every max_history the pruned log is
\* the original system message followed by a contiguous suffix of the rest of the original
\* log, in unchanged order, nothing dropped inside and nothing duplicated.
C18_PruneSuffixAligned ==
    pc = "pruned" =>
        \E j \in 2..(Len(log0) + 1) :
            messages = <<log0[1]>> \o SubSeq(log0, j, Len(log0))

\* C19: with the default max_history = 20, any number (up to the 25 of the test) of dummy
\* user/assistant turns appended to any log left by earlier chat calls, then _prune_memory:
\* at most 20 messages are left and element 0 is still the original system message.
C19_DummyTurnsPruned ==
    pc = "pruned" =>
        /\ Len(messages) <= DefaultMaxHistory
        /\ messages[1] = log0[1]

\* 25 dummy turns after a chat call: the window starts at the user message "Dummy 16"
C19_Witness ==
    /\ pc = "pruned"
    /\ turn >= 1
    /\ Len(messages) = DefaultMaxHistory - 1
    /\ messages[2] = UserMessage("Dummy 16")
    /\ Last(messages).content = "Response 24"

\* the reference transform of the specification
reference_prune(log, max_len) ==
    IF Len(log) <= max_len THEN log
    ELSE LET W     == SubSeq(log, Len(log) - (max_len - 1) + 1, Len(log))
             users == {i \in 1..Len(W) : W[i].role = "user"}
             s     == IF users = {} THEN 0
                      ELSE (CHOOSE i \in users : \A j \in users : i <= j) - 1
         IN  <<log[1]>> \o SubSeq(W, s + 1, Len(W))

\* C20: _prune_memory equals the reference transform for every log and max_history (from 1
\* on, where "the last max_history - 1 messages" is defined): unchanged if the log is not
\* longer than max_history, else [log[0]] followed by the window W of the last
\* max_history - 1 messages from its first user message on (all of W if it has none).
C20_PruneEqualsReference ==
    (pc = "pruned" /\ max_history >= 1) =>
        messages = reference_prune(log0, max_history)

\* C15: response shrinking is idempotent: cleaning the cleaned value gives the cleaned
\* value again, for every JSON value built from None, scalars, lists and dicts.
C15_CleanIdempotent ==
    pc = "cleaned" => cleaned[2] = cleaned[1]

\* a value two deep from which the cleaning removed something inside a nested container
C15_Witness ==
    /\ pc = "cleaned"
    /\ cleaned[1] # data
    /\ cleaned[1].t = data.t
    /\ Len(cleaned[1].items) = Len(data.items)
    /\ Len(data.items) >= 1

----------------------------------------------------------------------------
(* C21..C25 *)

\* C21: tool adjacency is an invariant of the log under chat: in every state reached by
\* chat calls on one agent, every tool message lies in a contiguous block of tool messages
\* that directly follows an assistant message whose tool_calls contain its tool_call_id.
C21_ToolAdjacencyUnderChat == ToolBatchesIntact(messages)

\* a second turn whose pruning dropped the first turn, with a tool batch answered in it
C21_Witness ==
    /\ turn = 2
    /\ Len(messages) > max_history
    /\ Cardinality({p \in 1..Len(messages) : messages[p].role = "user"}) = 1
    /\ Last(messages).role = "tool"
    /\ messages[Len(messages) - 1].role = "tool"

\* C22: the log is size-bounded whenever it is sent to the model: at every LLM call of every
\* turn, the first and every one that follows a tool dispatch, the log holds at most
\* max_history messages.
C22_BoundedAtEveryLLMCall ==
    pc = "llm" => call_len <= max_history

\* C23: termination of a turn depends only on the model: when every model call and every
\* tool execution completes and the model at some point answers with no tool calls or
\* fails, chat returns; and chat returns in no other way: it leaves the loop only from a
\* model call, by a plain answer or by the failure of the call, never because of a count
\* of model calls.
C23_TurnEndsWithTheModel ==
    /\ [][(pc # "idle" /\ pc' = "idle") =>
            (pc = "llm" /\ ret' \in {"done", "llm_error"})]_vars
    /\ (pc # "idle") ~> (pc = "idle")

\* a turn that went around the loop and returned on the model's plain answer
C23_Witness ==
    /\ pc = "idle"
    /\ ret = "done"
    /\ model_calls >= 2
    /\ Last(messages).role = "assistant"
    /\ Last(messages).tool_calls = <<>>

\* s is an initial part of t
IsPrefix(s, t) == Len(s) <= Len(t) /\ SubSeq(t, 1, Len(s)) = s

\* C24: the log is changed only by appends and by the single prune at the start of a turn:
\* the step that starts a chat call appends the user message, runs _prune_memory and issues
\* the first model call; every later step of the call leaves the existing messages as they
\* are, in content and position, and appends at most one message at the end.
C24_AppendsAndOnePrune ==
    [][ IF pc = "idle"
          THEN /\ \E user_input \in UserInputs :
                     messages' = _prune_memory(Append(messages, UserMessage(user_input)),
                                               max_history)
               /\ pc' = "llm"
               /\ model_calls' = 1
               /\ turn' = turn + 1
          ELSE /\ IsPrefix(messages, messages')
               /\ Len(messages') <= Len(messages) + 1
               /\ turn' = turn ]_vars

\* the second turn began by dropping the first one, and tool observations were appended
\* past max_history since
C24_Witness ==
    /\ turn = 2
    /\ pc = "llm"
    /\ model_calls = 2
    /\ Cardinality({p \in 1..Len(messages) : messages[p].role = "user"}) = 1
    /\ Len(messages) > max_history
    /\ messages[3].role = "assistant"

\* position in log of its most recent user message, 0 when it has none
LastUserPos(log) ==
    LET users == {p \in 1..Len(log) : log[p].role = "user"}
    IN  IF users = {} THEN 0 ELSE CHOOSE p \in users : \A q \in users : q <= p

\* C25: as the docstring of _prune_memory states, when pruning triggers the cut is placed
\* before the most recent user message of the log: the history kept after the system prompt
\* begins at the last user message.
C25_CutBeforeMostRecentUser ==
    (pc = "pruned" /\ Len(log0) > max_history /\ LastUserPos(log0) > 0) =>
        messages = <<log0[1]>> \o SubSeq(log0, LastUserPos(log0), Len(log0))

====
